---- MODULE Spec2Model ----
(***************************************************************************)
(* The BML parser of generate.py (class Node, re_eat, parse_bml) as a      *)
(* state machine.  Text is a sequence of one-character strings.  The tree  *)
(* is an arena: nodes[i] is the i-th Node constructed, nodes[1] the        *)
(* synthetic root; a parent of 0 is Python's None.  One step of the        *)
(* machine is one iteration of the `for line in file` loop.                *)
(***************************************************************************)
EXTENDS Integers, Sequences, FiniteSets, TLC

VARIABLES
  file,     \* the lines `for line in file` yields, terminators included
  pos,      \* number of lines the loop has taken from file
  nodes,    \* the Node objects, in order of construction (nodes[1] is r)
  n,        \* parse_bml's n: index of the current node, 0 for None
  hang,     \* parse_bml's hang
  indents,  \* parse_bml's indents, outermost first
  pc,       \* "loop", "returned", or "raised" once an exception left the call
  exc,      \* the exception raised, None while there is none
  result,   \* what the caller received from return: None or the root
  log       \* per line taken: how its iteration ended, the Node line 95
            \* built for it (0: none) and how often line 76 popped

vars == <<file, pos, nodes, n, hang, indents, pc, exc, result, log>>

----------------------------------------------------------------------------
(* Characters *)

SP == " "
TAB == "\t"
CR == "\r"
LF == "\n"
FF == "\f"
QUOTE == "\""
COLON == ":"
EQ == "="

\* The class [A-Za-z0-9-.] of the name and key patterns.
IdentChars ==
  { "A","B","C","D","E","F","G","H","I","J","K","L","M",
    "N","O","P","Q","R","S","T","U","V","W","X","Y","Z",
    "a","b","c","d","e","f","g","h","i","j","k","l","m",
    "n","o","p","q","r","s","t","u","v","w","x","y","z",
    "0","1","2","3","4","5","6","7","8","9","-","." }

\* The characters \s matches, as far as the input alphabet has them.
ReSpace == { SP, TAB, CR, LF, FF }

\* The argument of strip(" \t\r\n"), rstrip('\r\n'), lstrip(' \t').
BlankChars == { SP, TAB, CR, LF }
EolChars == { CR, LF }
HorizChars == { SP, TAB }

----------------------------------------------------------------------------
(* Python's None and str values: None is <<>>, a value v is <<v>>. *)

None == << >>
Some(v) == << v >>

----------------------------------------------------------------------------
(* str operations *)

Drop(s, k) == SubSeq(s, k + 1, Len(s))

Take(s, k) == SubSeq(s, 1, k)

StartsWith(s, p) == Len(p) <= Len(s) /\ SubSeq(s, 1, Len(p)) = p

\* Length of the longest prefix of s whose characters are all in cs.
RECURSIVE PrefixLen(_, _)
PrefixLen(s, cs) ==
  IF s = << >> \/ Head(s) \notin cs THEN 0 ELSE 1 + PrefixLen(Tail(s), cs)

\* Length of the longest prefix of s none of whose characters is in cs.
RECURSIVE PrefixLenNot(_, _)
PrefixLenNot(s, cs) ==
  IF s = << >> \/ Head(s) \in cs THEN 0 ELSE 1 + PrefixLenNot(Tail(s), cs)

\* Length of the longest suffix of s whose characters are all in cs.
RECURSIVE SuffixLen(_, _)
SuffixLen(s, cs) ==
  IF s = << >> \/ s[Len(s)] \notin cs THEN 0
  ELSE 1 + SuffixLen(Take(s, Len(s) - 1), cs)

LStrip(s, cs) == Drop(s, PrefixLen(s, cs))

RStrip(s, cs) == Take(s, Len(s) - SuffixLen(s, cs))

\* A strip that removes the characters at the front only.
StripFrontOnly(s, cs) == LStrip(s, cs)

Strip(s, cs) == RStrip(LStrip(s, cs), cs)

----------------------------------------------------------------------------
(* class Node *)

Node(parent, name, data) ==
  [parent |-> parent, name |-> name, data |-> data, children |-> << >>]

\* An append of a Node whose parent reference is the root, not p.
AppendParentRoot(ns, p, name, data) ==
  LET id == Len(ns) + 1
  IN  [i \in 1..id |->
         IF i = id THEN Node(1, name, data)
         ELSE IF i = p THEN [ns[i] EXCEPT !.children = Append(@, id)]
         ELSE ns[i]]

\* An append that puts the new Node at the front of p's children.
AppendFront(ns, p, name, data) ==
  LET id == Len(ns) + 1
  IN  [i \in 1..id |->
         IF i = id THEN Node(p, name, data)
         ELSE IF i = p THEN [ns[i] EXCEPT !.children = <<id>> \o @]
         ELSE ns[i]]

\* ns with a new Node(p, name, data) constructed and appended to p's children.
Append_(ns, p, name, data) ==
  LET id == Len(ns) + 1
  IN  [i \in 1..id |->
         IF i = id THEN Node(p, name, data)
         ELSE IF i = p THEN [ns[i] EXCEPT !.children = Append(@, id)]
         ELSE ns[i]]

\* Node.text
text(ns, i) == IF ns[i].data /= None THEN ns[i].data[1] ELSE << >>

\* A path that goes on to later same-named siblings when the recursion into
\* the first one finds nothing.
RECURSIVE PathRetryFrom(_, _, _, _)
PathRetryFrom(ns, i, c, keys) ==
  IF c > Len(ns[i].children) THEN 0
  ELSE LET child == ns[i].children[c]
           below == IF Len(keys) = 1 THEN child
                    ELSE PathRetryFrom(ns, child, 1, Tail(keys))
       IN  IF ns[child].name = Head(keys) /\ below /= 0 THEN below
           ELSE PathRetryFrom(ns, i, c + 1, keys)

pathRetry(ns, i, keys) == PathRetryFrom(ns, i, 1, keys)

\* Node.path: the loop `for child in self.children` is at position c; falling
\* out of the loop returns None (0).
RECURSIVE PathFrom(_, _, _, _)
PathFrom(ns, i, c, keys) ==
  IF c > Len(ns[i].children) THEN 0
  ELSE LET child == ns[i].children[c]
       IN  IF ns[child].name = Head(keys)
           THEN IF Len(keys) = 1 THEN child
                ELSE PathFrom(ns, child, 1, Tail(keys))
           ELSE PathFrom(ns, i, c + 1, keys)

\* Node.path(key, *keys), keys = <<key>> \o keys
path(ns, i, keys) == PathFrom(ns, i, 1, keys)

\* An elements that puts each match at the front of the list.
RECURSIVE ElementsFrontFrom(_, _, _, _)
ElementsFrontFrom(ns, i, c, key) ==
  IF c > Len(ns[i].children) THEN << >>
  ELSE ElementsFrontFrom(ns, i, c + 1, key) \o
         (IF ns[ns[i].children[c]].name = key THEN << ns[i].children[c] >> ELSE << >>)

elementsFront(ns, i, key) == ElementsFrontFrom(ns, i, 1, key)

\* Node.elements: the loop is at position c, acc is the list `children`.
RECURSIVE ElementsFrom(_, _, _, _, _)
ElementsFrom(ns, i, c, key, acc) ==
  IF c > Len(ns[i].children) THEN acc
  ELSE ElementsFrom(ns, i, c + 1, key,
                    IF ns[ns[i].children[c]].name = key
                    THEN Append(acc, ns[i].children[c]) ELSE acc)

\* Node.elements(key)
elements(ns, i, key) == ElementsFrom(ns, i, 1, key, << >>)

----------------------------------------------------------------------------
(* re_eat with the three patterns of parse_bml.  Each gives the number of  *)
(* characters of the match (0: no match) and the groups the code reads.    *)

\* r'^([A-Za-z0-9-.]{1,})'
EatName(s) ==
  LET k == PrefixLen(s, IdentChars)
  IN  [ok |-> k > 0, rest |-> Drop(s, k), g1 |-> Take(s, k)]

\* r'^([A-Za-z0-9-.]{1,})='
EatKey(s) ==
  LET k == PrefixLen(s, IdentChars)
      ok == k > 0 /\ k < Len(s) /\ s[k + 1] = EQ
  IN  [ok |-> ok, rest |-> IF ok THEN Drop(s, k + 1) ELSE s, g1 |-> Take(s, k)]

\* A value pattern whose bareword branch runs over whitespace: [^"]+ .
EatValueOverSpace(s) ==
  LET k == PrefixLenNot(s, {QUOTE})
  IN  [ok |-> k > 0, rest |-> Drop(s, k), g1 |-> Some(Take(s, k)), g2 |-> None]

\* r'^([^\s"]+)|^"([^"]*)"' : group 1 is None when the quoted branch matched.
EatValue(s) ==
  LET k == PrefixLenNot(s, ReSpace \cup {QUOTE})
      q == IF s /= << >> /\ Head(s) = QUOTE
           THEN PrefixLenNot(Tail(s), {QUOTE}) ELSE 0
      closed == s /= << >> /\ Head(s) = QUOTE /\ q + 2 <= Len(s)
  IN  IF k > 0
      THEN [ok |-> TRUE, rest |-> Drop(s, k), g1 |-> Some(Take(s, k)), g2 |-> None]
      ELSE IF closed
      THEN [ok |-> TRUE, rest |-> Drop(s, q + 2), g1 |-> None,
            g2 |-> Some(SubSeq(s, 2, q + 1))]
      ELSE [ok |-> FALSE, rest |-> s, g1 |-> None, g2 |-> None]

----------------------------------------------------------------------------
(* The body of the loop of parse_bml *)

\* A blank test that strips spaces and tabs only.
IsBlankHorizOnly(line) == Strip(line, HorizChars) = << >>

\* line.strip(" \t\r\n") == ""
IsBlank(line) == Strip(line, BlankChars) = << >>

\* for indent in reversed(indents): the reverse iterator is at index i.
\* d = [line, n, hang, indents, popped, err]; err: None was dereferenced.
RECURSIVE Dedent(_, _, _)
Dedent(ns, i, d) ==
  IF d.err \/ i < 1 \/ i > Len(d.indents) THEN d
  ELSE IF StartsWith(d.line, d.indents[i])
  THEN Dedent(ns, i - 1, [d EXCEPT !.line = Drop(@, Len(d.indents[i]))])
  ELSE LET h  == d.hang
           n1 == IF h /\ d.n /= 0 THEN ns[d.n].parent ELSE d.n
       IN  IF n1 = 0
           THEN [d EXCEPT !.hang = FALSE, !.n = 0, !.err = TRUE]
           ELSE Dedent(ns, i - 1,
                       [d EXCEPT !.hang = FALSE,
                                 !.n = ns[n1].parent,
                                 !.indents = Take(@, Len(@) - 1),
                                 !.popped = @ + 1])

\* while part != "": the key=value pairs, appended under node p.
\* Gives [kind, nodes]; kind is "pairs" when the remainder was exhausted.
RECURSIVE Pairs(_, _, _)
Pairs(ns, p, part) ==
  IF part = << >> THEN [kind |-> "pairs", nodes |-> ns]
  ELSE LET k == EatKey(part)
           v == EatValue(k.rest)
       IN  IF ~k.ok THEN [kind |-> "err_key", nodes |-> ns]
           ELSE IF ~v.ok THEN [kind |-> "err_value", nodes |-> ns]
           ELSE Pairs(Append_(ns, p, k.g1, v.g1), p, LStrip(v.rest, HorizChars))

\* The values `part` has each time `while part != ""` is evaluated, up to the
\* exit of the loop or the raise.
RECURSIVE PairParts(_)
PairParts(part) ==
  IF part = << >> THEN << part >>
  ELSE LET k == EatKey(part)
           v == EatValue(k.rest)
       IN  IF ~k.ok \/ ~v.ok THEN << part >>
           ELSE << part >> \o PairParts(LStrip(v.rest, HorizChars))

\* One iteration of the loop on `line` in the state s = [nodes, n, hang,
\* indents]: the state it leaves and how it ended (kind), the node the line
\* created (node, 0 when none) and the number of indents.pop() calls.
Step(s, line) ==
  IF IsBlank(line)
  THEN [kind |-> "blank", nodes |-> s.nodes, n |-> s.n, hang |-> s.hang,
        indents |-> s.indents, node |-> 0, popped |-> 0]
  ELSE
  LET d    == Dedent(s.nodes, Len(s.indents),
                     [line |-> RStrip(line, EolChars), n |-> s.n, hang |-> s.hang,
                      indents |-> s.indents, popped |-> 0, err |-> FALSE])
      part == LStrip(d.line, HorizChars)
      push == Len(part) /= Len(d.line)
      ind  == IF push THEN Append(d.indents, Take(d.line, Len(d.line) - Len(part)))
              ELSE d.indents
      up   == ~push /\ d.hang
      cur  == IF up /\ d.n /= 0 THEN s.nodes[d.n].parent ELSE d.n
      out(kind, ns, c, h, made) ==
        [kind |-> kind, nodes |-> ns, n |-> c, hang |-> h, indents |-> ind,
         node |-> made, popped |-> d.popped]
      m    == EatName(part)
      new  == Len(s.nodes) + 1
      ns1  == Append_(s.nodes, cur, m.g1, None)
  IN  IF d.err
      THEN [kind |-> "err_attr", nodes |-> s.nodes, n |-> d.n, hang |-> d.hang,
            indents |-> d.indents, node |-> 0, popped |-> d.popped]
      ELSE IF up /\ d.n = 0 THEN out("err_attr", s.nodes, 0, TRUE, 0)
      ELSE IF StartsWith(part, <<COLON>>)
      THEN IF cur = 0 THEN out("err_attr", s.nodes, 0, FALSE, 0)
           ELSE out("block",
                    [s.nodes EXCEPT ![cur].data =
                       IF @ = None THEN Some(Drop(part, 1))
                       ELSE Some(@[1] \o <<LF>> \o Drop(part, 1))],
                    cur, FALSE, 0)
      ELSE IF ~m.ok THEN out("err_name", s.nodes, cur, FALSE, 0)
      ELSE IF cur = 0 THEN out("err_attr", s.nodes, 0, FALSE, 0)
      ELSE IF StartsWith(m.rest, <<COLON>>)
      THEN out("direct",
               [ns1 EXCEPT ![new].data = Some(Strip(Drop(m.rest, 1), HorizChars))],
               new, TRUE, new)
      ELSE LET r == Pairs(ns1, new, LStrip(m.rest, HorizChars))
           IN  out(r.kind, r.nodes, new, TRUE, new)

\* The loop over `lines` from the state s, stopped by the first exception:
\* the state reached, the kind of the last iteration and the lines consumed.
RECURSIVE Run(_, _, _)
Run(s, lines, k) ==
  IF lines = << >>
  THEN [kind |-> "end", nodes |-> s.nodes, n |-> s.n, hang |-> s.hang,
        indents |-> s.indents, consumed |-> k]
  ELSE LET r == Step(s, Head(lines))
       IN  IF r.kind \in {"err_name", "err_key", "err_value", "err_attr"}
           THEN [kind |-> r.kind, nodes |-> r.nodes, n |-> r.n, hang |-> r.hang,
                 indents |-> r.indents, consumed |-> k + 1]
           ELSE Run([nodes |-> r.nodes, n |-> r.n, hang |-> r.hang,
                     indents |-> r.indents], Tail(lines), k + 1)

----------------------------------------------------------------------------
(* Inputs *)

MaxLines == 3
MaxPieces == 4
MaxKeys == 2

RECURSIVE Flatten(_)
Flatten(ss) == IF ss = << >> THEN << >> ELSE Head(ss) \o Flatten(Tail(ss))

SeqsUpTo(S, k) == UNION { [1..m -> S] : m \in 0..k }

\* Indent-structured documents: lines of leading whitespace and a short body.
Indents == { << >>, <<SP>>, <<SP, SP>>, <<TAB>>, <<SP, TAB>>, <<SP, TAB, SP>> }

Bodies == { <<"a">>, <<COLON, "x">> }

IndentLines ==
  { i \o b \o <<LF>> : i \in Indents, b \in Bodies }
    \cup { <<SP, CR, LF>>, <<EQ, LF>> }

IndentFiles == SeqsUpTo(IndentLines, MaxLines)

\* One-line documents: a node name followed by pieces of the pair grammar.
Pieces ==
  { <<SP>>, <<TAB>>, <<COLON>>, <<QUOTE>>,
    <<"k", EQ>>, <<"k", EQ, "v">>, <<"x", EQ, "1">>,
    <<"k", EQ, QUOTE, "v", SP, "v", QUOTE>> }

PairLines == { <<"n">> \o Flatten(ps) \o <<LF>> : ps \in SeqsUpTo(Pieces, MaxPieces) }

PairFiles == { <<l>> : l \in PairLines }

Files == IndentFiles \cup PairFiles

----------------------------------------------------------------------------
(* The state machine *)

Root == 1

\* r = n = Node(None, 'root'); hang = False; indents = []
Init ==
  /\ file \in Files
  /\ pos = 0
  /\ nodes = << Node(0, <<"r", "o", "o", "t">>, None) >>
  /\ n = Root
  /\ hang = FALSE
  /\ indents = << >>
  /\ pc = "loop"
  /\ exc = None
  /\ result = None
  /\ log = << >>

State == [nodes |-> nodes, n |-> n, hang |-> hang, indents |-> indents]

HasLine == pc = "loop" /\ pos < Len(file)

Line == file[pos + 1]

\* A loop in which `continue` on a blank line reads the same line again.
AdvanceKeepsBlank(r) ==
  /\ pos' = IF r.kind = "blank" THEN pos ELSE pos + 1
  /\ nodes' = r.nodes
  /\ n' = r.n
  /\ hang' = r.hang
  /\ indents' = r.indents
  /\ log' = Append(log, [kind |-> r.kind, node |-> r.node, popped |-> r.popped])
  /\ UNCHANGED file

\* The iteration on the next line ran to its end (continue or fall through).
Advance(r) ==
  /\ pos' = pos + 1
  /\ nodes' = r.nodes
  /\ n' = r.n
  /\ hang' = r.hang
  /\ indents' = r.indents
  /\ log' = Append(log, [kind |-> r.kind, node |-> r.node, popped |-> r.popped])
  /\ UNCHANGED file

Continue(r) == Advance(r) /\ UNCHANGED <<pc, exc, result>>

\* A failed match that is swallowed: the loop goes on with the next line.
RaiseSwallowed(r, type, msg) == Advance(r) /\ UNCHANGED <<pc, exc, result>>

\* An exception leaves parse_bml: the caller gets the exception and no tree.
\* SyntaxError(msg) sets msg only; text and offset stay None.
Raise(r, type, msg) ==
  /\ Advance(r)
  /\ pc' = "raised"
  /\ exc' = Some([type |-> type, msg |-> msg, text |-> None, offset |-> None])
  /\ UNCHANGED result

SkipBlank ==
  /\ HasLine
  /\ LET r == Step(State, Line) IN r.kind = "blank" /\ Continue(r)

BlockLine ==
  /\ HasLine
  /\ LET r == Step(State, Line) IN r.kind = "block" /\ Continue(r)

NodeDirect ==
  /\ HasLine
  /\ LET r == Step(State, Line) IN r.kind = "direct" /\ Continue(r)

NodePairs ==
  /\ HasLine
  /\ LET r == Step(State, Line) IN r.kind = "pairs" /\ Continue(r)

RaiseNodeName ==
  /\ HasLine
  /\ LET r == Step(State, Line)
     IN  r.kind = "err_name" /\ Raise(r, "SyntaxError", "expected node name")

RaisePairKey ==
  /\ HasLine
  /\ LET r == Step(State, Line)
     IN  r.kind = "err_key" /\ Raise(r, "SyntaxError", "expected pair key")

RaisePairValue ==
  /\ HasLine
  /\ LET r == Step(State, Line)
     IN  r.kind = "err_value" /\ Raise(r, "SyntaxError", "expected pair value")

\* n is None where the code reads n.parent, n.data or n.append.
RaiseAttributeError ==
  /\ HasLine
  /\ LET r == Step(State, Line)
     IN  r.kind = "err_attr" /\ Raise(r, "AttributeError", "NoneType")

\* return r
Return ==
  /\ pc = "loop"
  /\ pos = Len(file)
  /\ pc' = "returned"
  /\ result' = Some(Root)
  /\ UNCHANGED <<file, pos, nodes, n, hang, indents, exc, log>>

Next ==
  \/ SkipBlank
  \/ BlockLine
  \/ NodeDirect
  \/ NodePairs
  \/ RaiseNodeName
  \/ RaisePairKey
  \/ RaisePairValue
  \/ RaiseAttributeError
  \/ Return

Spec == Init /\ [][Next]_vars

TypeOK ==
  /\ pos \in 0..Len(file)
  /\ n \in 0..Len(nodes)
  /\ hang \in BOOLEAN
  /\ pc \in {"loop", "returned", "raised"}
  /\ Len(log) = pos

----------------------------------------------------------------------------
(* Vocabulary of the properties *)

S0 ==
  [nodes |-> << Node(0, <<"r", "o", "o", "t">>, None) >>, n |-> Root,
   hang |-> FALSE, indents |-> << >>]

\* Every character of the line is a space, tab, CR or LF (or there is none).
AllBlank(line) == \A i \in 1..Len(line) : line[i] \in {SP, TAB, CR, LF}

\* The line without its terminator, its leading whitespace and what follows it.
Chomp(line) == RStrip(line, EolChars)

LeadWS(line) == Take(Chomp(line), PrefixLen(Chomp(line), HorizChars))

Body(line) == Drop(Chomp(line), Len(LeadWS(line)))

StrictlyExtends(w, v) == Len(w) > Len(v) /\ Take(w, Len(v)) = v

\* Lines i and j were processed, created a node each, and only blank lines
\* lie between them.
ConsecutiveNodeLines(i, j) ==
  /\ i < j
  /\ log[i].node /= 0
  /\ log[j].node /= 0
  /\ \A k \in (i + 1)..(j - 1) : log[k].kind = "blank"

\* A pair as the input grammar writes it: separator, key, '=', value.
BareValues == { <<"v">>, <<"1">> }

QuotedValues == { <<"v", SP, "v">> }

PairForms ==
  [sep : {<<SP>>, <<TAB>>}, key : {<<"k">>, <<"x">>}, val : BareValues, quoted : {FALSE}]
    \cup
  [sep : {<<SP>>, <<TAB>>}, key : {<<"k">>, <<"x">>}, val : QuotedValues, quoted : {TRUE}]

PairText(p) ==
  p.sep \o p.key \o <<EQ>> \o
    (IF p.quoted THEN <<QUOTE>> \o p.val \o <<QUOTE>> ELSE p.val)

RECURSIVE Render(_)
Render(ps) == IF ps = << >> THEN << >> ELSE PairText(Head(ps)) \o Render(Tail(ps))

PairSeqs == SeqsUpTo(PairForms, MaxPieces \div 2)

BarePairSeqs == { ps \in PairSeqs : \A i \in 1..Len(ps) : ~ps[i].quoted }

\* The line just processed is the node line `n` followed by the pairs ps.
JustParsed(ps) ==
  /\ pos >= 1
  /\ Head(file[pos]) = "n"
  /\ file[pos] = <<"n">> \o Render(ps) \o <<LF>>

----------------------------------------------------------------------------
(* Properties *)

\* C1: a node line with a pair key="text" gets a child named key whose
\* text() is text, the characters between the quotes.
C1_QuotedValueText ==
  \A ps \in PairSeqs :
    JustParsed(ps) =>
      \A i \in 1..Len(ps) :
        ps[i].quoted =>
          /\ log[pos].node /= 0
          /\ \E c \in 1..Len(nodes[log[pos].node].children) :
               LET ch == nodes[log[pos].node].children[c]
               IN  nodes[ch].name = ps[i].key /\ text(nodes, ch) = ps[i].val

\* C2: two consecutive node lines with identical leading whitespace create
\* two children of the same parent; the second is not a child of the first.
C2_SiblingRule ==
  \A i, j \in 1..pos :
    (ConsecutiveNodeLines(i, j) /\ LeadWS(file[i]) = LeadWS(file[j])) =>
      /\ nodes[log[j].node].parent = nodes[log[i].node].parent
      /\ nodes[log[j].node].parent /= log[i].node

\* C3: a node line whose leading whitespace strictly extends that of the
\* preceding node line creates a child of the node that line created.
C3_Nesting ==
  \A i, j \in 1..pos :
    (ConsecutiveNodeLines(i, j) /\ StrictlyExtends(LeadWS(file[j]), LeadWS(file[i]))) =>
      nodes[log[j].node].parent = log[i].node

\* The lines i+1..j are ':' lines at one common indentation that strictly
\* extends the indentation of line i.
BlockRun(i, j) ==
  /\ i < j
  /\ \A k \in (i + 1)..j :
       /\ StartsWith(Body(file[k]), <<COLON>>)
       /\ LeadWS(file[k]) = LeadWS(file[i + 1])
       /\ StrictlyExtends(LeadWS(file[k]), LeadWS(file[i]))

RECURSIVE JoinBlock(_, _, _)
JoinBlock(f, i, j) ==
  IF i = j THEN Drop(Body(f[i]), 1)
  ELSE JoinBlock(f, i, j - 1) \o <<LF>> \o Drop(Body(f[j]), 1)

\* A ':' line that raises nothing creates no node and changes the data of cur
\* only, setting or appending to it.
BlockStepFrame ==
  (HasLine /\ ~AllBlank(Line) /\ StartsWith(Body(Line), <<COLON>>) /\ pc' = "loop") =>
    /\ Len(nodes') = Len(nodes)
    /\ n' /= 0
    /\ \A i \in 1..Len(nodes) : i /= n' => nodes'[i] = nodes[i]
    /\ nodes'[n'] =
         [nodes[n'] EXCEPT !.data =
            IF @ = None THEN Some(Drop(Body(Line), 1))
            ELSE Some(@[1] \o <<LF>> \o Drop(Body(Line), 1))]

\* A node line followed by k more-indented ':' lines at one indentation has
\* the k texts joined by LF as the data of its node.
BlockRunData ==
  \A i \in 1..pos :
    (log[i].kind = "pairs" /\ BlockRun(i, pos)) =>
      nodes[log[i].node].data = Some(JoinBlock(file, i + 1, pos))

\* C4: block continuation changes only the data of cur, and a node line
\* followed by k more-indented ':' lines gets the k texts joined by LF.
C4_BlockContinuation == [][BlockStepFrame]_vars /\ []BlockRunData

\* C5: name k1=v1 ... kn=vn with bareword values gives the node exactly the
\* n children ki with text vi, in order, and no grandchildren (a line on
\* which the indentation step dereferences None creates no node at all).
C5_BarewordPairs ==
  \A ps \in BarePairSeqs :
    (JustParsed(ps) /\ log[pos].kind /= "err_attr") =>
      LET nd == log[pos].node
      IN  /\ pc /= "raised"
          /\ nd /= 0
          /\ nodes[nd].name = <<"n">>
          /\ Len(nodes[nd].children) = Len(ps)
          /\ \A i \in 1..Len(ps) :
               LET ch == nodes[nd].children[i]
               IN  /\ nodes[ch].name = ps[i].key
                   /\ nodes[ch].parent = nd
                   /\ nodes[ch].data = Some(ps[i].val)
                   /\ text(nodes, ch) = ps[i].val
                   /\ nodes[ch].children = << >>

C5_Witness ==
  \E ps \in BarePairSeqs :
    /\ JustParsed(ps)
    /\ Len(ps) = 2
    /\ ps[1].key /= ps[2].key
    /\ ps[1].val /= ps[2].val
    /\ ps[1].sep /= ps[2].sep
    /\ pc = "returned"

\* C6: key= with nothing after the '=' fails with the cause MissingPairValue,
\* and the error carries the line's text and the column after the '='.
C6_MissingPairValueCarriesLineAndColumn ==
  \A ps \in BarePairSeqs : \A sep \in {<<SP>>, <<TAB>>} : \A key \in {<<"k">>} :
    LET upto == <<"n">> \o Render(ps) \o sep \o key \o <<EQ>>
    IN  (pos >= 1 /\ Chomp(file[pos]) = upto) =>
          /\ pc = "raised"
          /\ exc /= None
          /\ exc[1].type = "SyntaxError"
          /\ exc[1].msg = "expected pair value"
          /\ exc[1].text \in {Some(upto), Some(file[pos])}
          /\ exc[1].offset \in {Some(Len(upto)), Some(Len(upto) + 1)}

\* C7: a failed mandatory match (node name, pair key, pair value) ends the
\* parse at that line with the syntax error; no later line is processed and
\* the caller gets no tree.
C7_ErrorAbortsParse ==
  \A i \in 1..pos :
    log[i].kind \in {"err_name", "err_key", "err_value"} =>
      /\ i = pos
      /\ pc = "raised"
      /\ result = None
      /\ exc /= None
      /\ exc[1].type = "SyntaxError"

C7_Witness ==
  /\ pc = "raised"
  /\ pos >= 2
  /\ pos < Len(file)
  /\ log[pos].kind = "err_name"
  /\ Len(nodes) > 1

\* C8: lines of spaces, tabs, CR and LF only are ignored: the parser state is
\* the one reached on the processed lines with those lines left out.
C8_BlankLinesIgnored ==
  LET kept == SelectSeq(Take(file, pos), LAMBDA l : ~AllBlank(l))
      r    == Run(S0, kept, 0)
  IN  /\ nodes = r.nodes
      /\ n = r.n
      /\ hang = r.hang
      /\ indents = r.indents
      /\ (pc = "raised") = (r.kind /= "end")

C8_Witness ==
  /\ pos >= 2
  /\ AllBlank(file[pos])
  /\ ~AllBlank(file[pos - 1])
  /\ hang
  /\ indents /= << >>
  /\ pc = "loop"

\* C9: the root is named "root" and has no data, in every state.
C9_RootHasNoData ==
  /\ nodes[Root].name = <<"r", "o", "o", "t">>
  /\ nodes[Root].data = None

\* The line's leading whitespace starts with the first j open prefixes.
Contains(line, j) == StartsWith(LeadWS(line), Flatten(Take(indents, j)))

\* C10: a line whose leading whitespace starts with all open prefixes pops
\* none and does not ascend; an entry is popped only when the leading
\* whitespace does not contain the prefixes up to and including it.
C10_PrefixContainment ==
  [][(HasLine /\ ~AllBlank(Line)) =>
       /\ \A j \in 1..Len(indents) :
            j > Len(indents) - log'[pos + 1].popped => ~Contains(Line, j)
       /\ Contains(Line, Len(indents)) =>
            /\ log'[pos + 1].popped = 0
            /\ Len(indents') >= Len(indents)
            /\ Take(indents', Len(indents)) = indents]_vars

----------------------------------------------------------------------------
(* Query API *)

KeyNames == { <<"a">>, <<"k">>, <<"x">> }

KeySeqs == SeqsUpTo(KeyNames, MaxKeys) \ { << >> }

\* The first child of node i, in document order, named name; 0 when none.
FirstNamed(ns, i, name) ==
  LET at == { c \in 1..Len(ns[i].children) : ns[ns[i].children[c]].name = name }
  IN  IF at = {} THEN 0
      ELSE ns[i].children[CHOOSE c \in at : \A d \in at : c <= d]

\* Step by step from node i: the first child named keys[1], then its first
\* child named keys[2], ...; 0 as soon as a step has no such child.
RECURSIVE Walk(_, _, _)
Walk(ns, i, keys) ==
  IF keys = << >> THEN i
  ELSE LET f == FirstNamed(ns, i, Head(keys))
       IN  IF f = 0 THEN 0 ELSE Walk(ns, f, Tail(keys))

\* C11: path(n1, ..., nk) is the node reached by taking the first child named
\* ni at each step, not-found as soon as a step has no such child (later
\* same-named siblings are not tried); a node without data is still found.
C11_PathFirstMatch ==
  pc = "returned" =>
    \A i \in 1..Len(nodes) : \A keys \in KeySeqs :
      path(nodes, i, keys) = Walk(nodes, i, keys)

\* Not found through the first `a`, although a later sibling `a` has the
\* child; and a node without data is found.
C11_Witness ==
  /\ pc = "returned"
  /\ path(nodes, Root, << <<"a">>, <<"a">> >>) = 0
  /\ \E c \in 1..Len(nodes[Root].children) :
       /\ nodes[nodes[Root].children[c]].name = <<"a">>
       /\ FirstNamed(nodes, nodes[Root].children[c], <<"a">>) /= 0
  /\ path(nodes, Root, << <<"a">> >>) /= 0
  /\ nodes[path(nodes, Root, << <<"a">> >>)].data = None

\* C12: elements(name) is exactly the children named name, each once, in
\* document order, empty when there is none; never a grandchild.
C12_ElementsInOrder ==
  pc = "returned" =>
    \A i \in 1..Len(nodes) : \A key \in KeyNames :
      LET es == elements(nodes, i, key)
          ch == nodes[i].children
      IN  /\ \A e \in 1..Len(es) : \E c \in 1..Len(ch) : ch[c] = es[e]
          /\ \A e \in 1..Len(es) : nodes[es[e]].name = key /\ nodes[es[e]].parent = i
          /\ \A c \in 1..Len(ch) :
               nodes[ch[c]].name = key =>
                 Cardinality({ e \in 1..Len(es) : es[e] = ch[c] }) = 1
          /\ \A e, f \in 1..Len(es) : \A c, d \in 1..Len(ch) :
               (e < f /\ ch[c] = es[e] /\ ch[d] = es[f]) => c < d

C12_Witness ==
  /\ pc = "returned"
  /\ Len(elements(nodes, Root, <<"a">>)) >= 2
  /\ \E i \in 1..Len(nodes) :
       nodes[i].children /= << >> /\ elements(nodes, i, <<"x">>) = << >>
  /\ \E i \in 1..Len(nodes) :
       /\ nodes[i].name = <<"a">>
       /\ nodes[i].parent /= Root
       /\ nodes[i].parent /= 0

----------------------------------------------------------------------------
(* Tree shape *)

\* The places <<p, c>> where node i stands in a children sequence.
Places(i) ==
  { pc_ \in (1..Len(nodes)) \X (1..Len(nodes)) :
      /\ pc_[2] <= Len(nodes[pc_[1]].children)
      /\ nodes[pc_[1]].children[pc_[2]] = i }

\* C13: the nodes form a tree: every node but the root stands exactly once in
\* the children of exactly one node, which is its parent; the root has no
\* parent and is nobody's child.
C13_TreeShape ==
  /\ nodes[Root].parent = 0
  /\ Places(Root) = {}
  /\ \A i \in 2..Len(nodes) :
       /\ Cardinality(Places(i)) = 1
       /\ \A pl \in Places(i) : nodes[i].parent = pl[1]

C13_Witness ==
  /\ Len(nodes) >= 4
  /\ \E i \in 2..Len(nodes) : nodes[i].parent /= Root
  /\ Len(nodes[Root].children) >= 2

IsPrefix(s, u) == Len(s) <= Len(u) /\ SubSeq(u, 1, Len(s)) = s

\* Across a step every node keeps its name and parent, and its children
\* sequence is extended at the end only.
ChildrenAppendOnly ==
  /\ Len(nodes') >= Len(nodes)
  /\ \A i \in 1..Len(nodes) :
       /\ IsPrefix(nodes[i].children, nodes'[i].children)
       /\ nodes'[i].name = nodes[i].name
       /\ nodes'[i].parent = nodes[i].parent

\* Children stand in the order of their construction, which is the order of
\* the input positions that created them (nodes is in construction order).
ChildrenInInputOrder ==
  /\ \A i \in 1..Len(nodes) : \A c, d \in 1..Len(nodes[i].children) :
       c < d => nodes[i].children[c] < nodes[i].children[d]
  /\ \A i, j \in 1..pos :
       (i < j /\ log[i].node /= 0 /\ log[j].node /= 0) => log[i].node < log[j].node

\* C14: children sequences are append-only across every step, and the order
\* of a node's children is the order of the input positions that made them.
C14_AppendOnly == [][ChildrenAppendOnly]_vars /\ []ChildrenInInputOrder

C14_Witness ==
  /\ pos >= 2
  /\ log[1].node /= 0
  /\ log[pos].node /= 0
  /\ nodes[log[1].node].parent = nodes[log[pos].node].parent
  /\ \E i \in 1..Len(nodes) : \E c \in 1..Len(nodes[i].children) :
       c >= 2 /\ nodes[i].children[c] = log[pos].node

----------------------------------------------------------------------------
(* Direct value *)

\* The line just processed is `n:` followed by text and a line feed.
JustParsedDirect ==
  /\ pos >= 1
  /\ Len(file[pos]) >= 3
  /\ file[pos][1] = "n"
  /\ file[pos][2] = COLON
  /\ file[pos][Len(file[pos])] = LF
  /\ \A i \in 1..(Len(file[pos]) - 1) : file[pos][i] \notin {CR, LF}

\* The text after `n:`.
DirectRest == SubSeq(file[pos], 3, Len(file[pos]) - 1)

\* core is rest without its leading and trailing spaces and tabs.
IsTrimOf(core, rest) ==
  \E a, b \in 0..Len(rest) :
    /\ a + b <= Len(rest)
    /\ \A i \in 1..a : rest[i] \in {SP, TAB}
    /\ \A i \in (Len(rest) - b + 1)..Len(rest) : rest[i] \in {SP, TAB}
    /\ core = SubSeq(rest, a + 1, Len(rest) - b)
    /\ core /= << >> => (core[1] \notin {SP, TAB} /\ core[Len(core)] \notin {SP, TAB})

\* C16: a node line with ':' right after the name gives the new node the rest
\* of the line, trimmed of spaces and tabs at both ends, as its data, and no
\* pair children, whatever key=value text follows the ':'.
C16_DirectValue ==
  (JustParsedDirect /\ log[pos].kind /= "err_attr") =>
    LET nd == log[pos].node
    IN  /\ pc /= "raised"
        /\ log[pos].kind = "direct"
        /\ nd /= 0
        /\ nd = Len(nodes)
        /\ nodes[nd].name = <<"n">>
        /\ nodes[nd].children = << >>
        /\ nodes[nd].data /= None
        /\ IsTrimOf(nodes[nd].data[1], DirectRest)

\* `n: k=v ` : key=value text between a leading and a trailing blank.
C16_Witness ==
  /\ JustParsedDirect
  /\ pc = "returned"
  /\ DirectRest = <<SP, "k", EQ, "v", SP>>
  /\ nodes[log[pos].node].data = Some(<<"k", EQ, "v">>)
  /\ nodes[log[pos].node].children = << >>

----------------------------------------------------------------------------
(* Ascending *)

RECURSIVE IsUnder(_, _, _)
\* Node i is the root or one of its descendants (k bounds the climb).
IsUnder(ns, i, k) ==
  IF i = Root THEN TRUE
  ELSE IF i = 0 \/ k = 0 THEN FALSE
  ELSE IsUnder(ns, ns[i].parent, k - 1)

\* C17: cur is always the root or a descendant of it; the ascend steps never
\* move it above the root, and no step uses a missing parent as cur.
C17_CurUnderRoot ==
  /\ n /= 0
  /\ IsUnder(nodes, n, Len(nodes))
  /\ \A i \in 1..pos : log[i].kind /= "err_attr"

\* The non-blank lines strictly between lines i and j (node lines or ':'
\* lines) have leading whitespace that strictly extends that of line i.
DeeperBetween(i, j) ==
  \A k \in (i + 1)..(j - 1) :
    log[k].kind /= "blank" =>
      /\ log[k].kind \in {"pairs", "direct", "block"}
      /\ StrictlyExtends(LeadWS(file[k]), LeadWS(file[i]))

\* C18: a node line with the leading whitespace of an earlier node line, all
\* non-blank lines between them being deeper than that line, creates a node
\* with the same parent as the earlier line's node.
C18_DedentRule ==
  \A i, j \in 1..pos :
    (/\ i < j
     /\ log[i].node /= 0
     /\ log[j].node /= 0
     /\ LeadWS(file[i]) = LeadWS(file[j])
     /\ DeeperBetween(i, j)) =>
      nodes[log[j].node].parent = nodes[log[i].node].parent

----------------------------------------------------------------------------
(* Termination *)

Done == pc \in {"returned", "raised"}

\* A step takes exactly the next line, or is the return after the last one.
TakesNextLine ==
  \/ /\ pc = "loop"
     /\ pos < Len(file)
     /\ pos' = pos + 1
     /\ Len(log') = Len(log) + 1
     /\ file' = file
  \/ /\ pc = "loop"
     /\ pos = Len(file)
     /\ pos' = pos
     /\ pc' = "returned"
     /\ file' = file

\* `part` at the entry of the key=value loop of a node line.
PairsEntry(line) == LStrip(EatName(Body(line)).rest, HorizChars)

\* On the line just processed, each iteration of the key=value loop that did
\* not raise left a strictly shorter remainder.
PairLoopShortens ==
  (pos >= 1 /\ log[pos].kind \in {"pairs", "err_key", "err_value"}) =>
    LET parts == PairParts(PairsEntry(file[pos]))
    IN  /\ \A i \in 1..(Len(parts) - 1) : Len(parts[i + 1]) < Len(parts[i])
        /\ log[pos].kind = "pairs" => parts[Len(parts)] = << >>
        /\ Len(nodes) = log[pos].node + Len(parts) - 1

\* The outcomes of one iteration of the loop over the lines.
StepKinds ==
  {"blank", "block", "direct", "pairs",
   "err_name", "err_key", "err_value", "err_attr"}

\* The call can go on: the iteration on the next line has an outcome, or the
\* lines are used up and the function returns.
CanStep ==
  \/ HasLine /\ Step(State, Line).kind \in StepKinds
  \/ pc = "loop" /\ pos = Len(file)

\* C19: the parse terminates with a tree or an error; each iteration of the
\* key=value loop raises or strictly shortens the remainder; every line is
\* processed exactly once, in input order.  Termination: a state that is not
\* final can take a step, and every step takes exactly the next line or ends
\* the call, so a run has at most Len(file) + 1 steps.
C19_Terminates ==
  /\ [](Done \/ CanStep)
  /\ [][TakesNextLine]_vars
  /\ [](Len(log) = pos /\ pos <= Len(file))
  /\ []PairLoopShortens

C19_Witness ==
  /\ pc = "returned"
  /\ pos = Len(file)
  /\ pos >= 1
  /\ log[pos].kind = "pairs"
  /\ Len(PairParts(PairsEntry(file[pos]))) >= 3

====
